---- MODULE Spec2Model ----
(***************************************************************************)
(* Model of teepark/contextual: the Inbound/Outbound middleware.Chain      *)
(* (src/middleware/middleware.go, second file of the package) and the      *)
(* Transformer chain.Chain (src/chain/chain.go).                           *)
(*                                                                         *)
(* A request is one invocation of the contextual.Handler that Chain.Then   *)
(* returned.  Every call the handler makes to a callback (a stage's        *)
(* Inbound or Outbound, a Transformer, the terminal handler) is one step,  *)
(* so that two requests running the same Chain can interleave between any  *)
(* two callbacks.                                                          *)
(***************************************************************************)
EXTENDS Integers, Sequences, FiniteSets, TLC

VARIABLES
    pkg,    \* which package's Chain is under test: "middleware" or "chain"
    chain,  \* the Chain: a sequence of stages, immutable after construction
    h,      \* the argument given to Chain.Then
    req,    \* the requests: one record per invocation of the Then handler
    adapter, \* the contextual.Adapter struct, when one is under test
    router   \* the Router struct, when one is under test

vars == <<pkg, chain, h, req, adapter, router>>

----------------------------------------------------------------------------
(* Bounds *)

MaxStages == 3       \* longest Chain
MaxMarker == 1       \* largest reached marker a caller's context carries
MaxStagesConc == 2   \* longest Chain when two requests run concurrently
MaxOuter == 2        \* longest Chain whose stages may themselves be Chains
MaxInner == 2        \* longest Chain used as a stage of another Chain
MaxRequests == 2     \* requests served by one Adapter

----------------------------------------------------------------------------
(* golang.org/x/net/context, as far as the chains use it *)

\* ctx.Value(reachedKey) == nil
NoMarker == -1

\* A context: isNil is Go's nil interface value; err is ctx.Err(); val is
\* ctx.Value("key") for the one application key the stages use; reached is
\* ctx.Value(reachedKey).
Background == [isNil |-> FALSE, err |-> "nil", val |-> "nil", reached |-> NoMarker]

NilContext == [isNil |-> TRUE, err |-> "nil", val |-> "nil", reached |-> NoMarker]

\* context.WithValue(ctx, "key", v): a child that shadows the parent's binding
WithValue(ctx, v) == [ctx EXCEPT !.val = v]

\* context.WithValue(ctx, reachedKey, i)
WithReached(ctx, i) == [ctx EXCEPT !.reached = i]

\* ctx, cancel := context.WithCancel(ctx); cancel().  A child of a context
\* that is already done takes its parent's error.
Cancel(ctx) == IF ctx.err = "nil" THEN [ctx EXCEPT !.err = "Canceled"] ELSE ctx

\* context.WithDeadline(ctx, <a time in the past>)
Expire(ctx) == IF ctx.err = "nil" THEN [ctx EXCEPT !.err = "DeadlineExceeded"] ELSE ctx

\* Not the code: any done context counts as cancelled
canceledWhenDone(ctx) == ctx.err # "nil"

\* middleware.canceled
canceled(ctx) == ctx.err = "Canceled"

----------------------------------------------------------------------------
(* The callbacks the application supplies *)

\* What a stage's Inbound (or a Transformer) does with the context it gets:
\*   pass      returns it                     setV, setW  bind "key"
\*   guard     cancels when the request is to be denied
\*   deadline  returns a child whose deadline has passed
\*   fresh     returns a context not derived from its argument
\*   panic     faults
StageKinds == {"pass", "setV", "setW", "guard", "deadline", "fresh", "panic"}

StageInbound(kind, ctx, deny) ==
    CASE kind = "setV"     -> WithValue(ctx, "v")
      [] kind = "setW"     -> WithValue(ctx, "w")
      [] kind = "guard"    -> IF deny THEN Cancel(ctx) ELSE ctx
      [] kind = "deadline" -> Expire(ctx)
      [] kind = "fresh"    -> Background
      [] OTHER             -> ctx

\* The values Chain.Then can be given: nil, a handler that returns, a handler
\* that panics.
Handlers == {"nil", "app", "appPanics"}

defaultHandler == "defaultHandler"

SeqsUpTo(S, n) == UNION {[1..k -> S] : k \in 0..n}

\* The zero values of the structs that are not under test
NoAdapter == [c |-> NilContext, handler |-> "nil"]

NoRouter ==
    [base |-> NilContext, init |-> "nil",
     mw |-> [form |-> "nil", kind |-> "pass", inner |-> <<>>]]

Chains == SeqsUpTo(StageKinds, MaxStages)

\* The contexts a caller hands to the Then handler: the dispatcher's root
\* context (possibly carrying a value, possibly already cancelled), or, when
\* the handler is itself the terminal handler of an enclosing Chain.Then whose
\* inbound pass was cancelled, that chain's context with its reached marker.
InitialContexts ==
    {Background, WithValue(Background, "w"), Cancel(Background)}
      \cup {WithReached(Cancel(Background), m) : m \in 0..MaxMarker}

----------------------------------------------------------------------------
(* middleware.Chain *)

\* Not the code: a nil handler is kept
ThenKeepsNil(hh) == hh

\* Chain.Then, lines 138-140: a nil handler is replaced by defaultHandler
Then(hh) == IF hh = "nil" THEN defaultHandler ELSE hh

\* Not the code: the reverse loop starts one stage short
OutboundStartSkipsLast(c, ctx) ==
    IF canceled(ctx) /\ ctx.reached # NoMarker
    THEN ctx.reached
    ELSE Len(c) - 2

\* Not the code: the reached marker is not consulted
OutboundStartIgnoresMarker(c, ctx) == Len(c) - 1

\* Not the code: the reached marker is kept in one place for all requests
\* (the largest index any request in flight has recorded)
OutboundStartShared(c, ctx) ==
    LET ms == {req[q].ctx.reached : q \in DOMAIN req}
        m  == CHOOSE x \in ms : \A y \in ms : y <= x
    IN IF canceled(ctx) /\ m # NoMarker THEN m ELSE Len(c) - 1

\* Chain.Outbound, lines 121-128: the index the reverse loop starts at
OutboundStart(c, ctx) ==
    IF canceled(ctx) /\ ctx.reached # NoMarker
    THEN ctx.reached
    ELSE Len(c) - 1

Event(op, idx, who, seen, ret) ==
    [op |-> op, idx |-> idx, who |-> who, seen |-> seen, ret |-> ret]

NewRequest(ctx0, deny) ==
    [pc |-> "NotStarted", i |-> 0, ctx |-> ctx0, ctx0 |-> ctx0, deny |-> deny,
     trace |-> <<>>, phases |-> <<"NotStarted">>, fault |-> "none"]

Goto(rq, pc) == [rq EXCEPT !.pc = pc, !.phases = Append(@, pc)]

\* The Then handler is invoked: Chain.Inbound starts its loop (line 108); an
\* empty Chain returns the context at once (line 115).
Serve(r) ==
    /\ pkg = "middleware"
    /\ req[r].pc = "NotStarted"
    /\ LET rq == Goto(req[r], "RunningInbound")
       IN req' = [req EXCEPT ![r] =
                    IF Len(chain) = 0
                    THEN Goto(rq, "InboundComplete")
                    ELSE [rq EXCEPT !.i = 0]]
    /\ UNCHANGED <<pkg, chain, h, adapter, router>>

\* Not the code: the context a stage's Inbound returns is only tested for
\* cancellation, the next stage gets the context the previous one got
InboundStepDropsContext(r) ==
    /\ pkg = "middleware"
    /\ req[r].pc = "RunningInbound"
    /\ LET rq   == req[r]
           kind == chain[rq.i + 1]
           out  == StageInbound(kind, rq.ctx, rq.deny)
           ev   == Event("In", rq.i, "stage", rq.ctx, out)
           rq1  == [rq EXCEPT !.trace = Append(@, ev)]
       IN req' = [req EXCEPT ![r] =
                    IF kind = "panic"
                    THEN Goto([rq1 EXCEPT !.fault = "inbound"], "Faulted")
                    ELSE IF canceled(out)
                    THEN Goto([rq1 EXCEPT !.ctx = WithReached(out, rq.i)], "Cancelled")
                    ELSE IF rq.i + 1 = Len(chain)
                    THEN Goto(rq1, "InboundComplete")
                    ELSE [rq1 EXCEPT !.i = rq.i + 1]]
    /\ UNCHANGED <<pkg, chain, h, adapter, router>>

\* Not the code: on cancellation the marker records the stage after the one
\* that cancelled
InboundStepMarksNext(r) ==
    /\ pkg = "middleware"
    /\ req[r].pc = "RunningInbound"
    /\ LET rq   == req[r]
           kind == chain[rq.i + 1]
           out  == StageInbound(kind, rq.ctx, rq.deny)
           ev   == Event("In", rq.i, "stage", rq.ctx, out)
           rq1  == [rq EXCEPT !.trace = Append(@, ev)]
       IN req' = [req EXCEPT ![r] =
                    IF kind = "panic"
                    THEN Goto([rq1 EXCEPT !.fault = "inbound"], "Faulted")
                    ELSE IF canceled(out)
                    THEN Goto([rq1 EXCEPT !.ctx = WithReached(out, rq.i + 1)], "Cancelled")
                    ELSE IF rq.i + 1 = Len(chain)
                    THEN Goto([rq1 EXCEPT !.ctx = out], "InboundComplete")
                    ELSE [rq1 EXCEPT !.ctx = out, !.i = rq.i + 1]]
    /\ UNCHANGED <<pkg, chain, h, adapter, router>>

\* One iteration of the loop of Chain.Inbound, lines 108-114
InboundStep(r) ==
    /\ pkg = "middleware"
    /\ req[r].pc = "RunningInbound"
    /\ LET rq   == req[r]
           kind == chain[rq.i + 1]
           out  == StageInbound(kind, rq.ctx, rq.deny)
           ev   == Event("In", rq.i, "stage", rq.ctx, out)
           rq1  == [rq EXCEPT !.trace = Append(@, ev)]
       IN req' = [req EXCEPT ![r] =
                    IF kind = "panic"
                    THEN Goto([rq1 EXCEPT !.fault = "inbound"], "Faulted")
                    ELSE IF canceled(out)
                    THEN Goto([rq1 EXCEPT !.ctx = WithReached(out, rq.i)], "Cancelled")
                    ELSE IF rq.i + 1 = Len(chain)
                    THEN Goto([rq1 EXCEPT !.ctx = out], "InboundComplete")
                    ELSE [rq1 EXCEPT !.ctx = out, !.i = rq.i + 1]]
    /\ UNCHANGED <<pkg, chain, h, adapter, router>>

\* Chain.Then, line 144: h.Serve(ctx, w, r), whatever Inbound returned
HandlerCall(r) ==
    /\ pkg = "middleware"
    /\ req[r].pc \in {"Cancelled", "InboundComplete"}
    /\ LET rq == req[r]
           ev == Event("H", -1, Then(h), rq.ctx, rq.ctx)
           rq1 == [rq EXCEPT !.trace = Append(@, ev)]
       IN req' = [req EXCEPT ![r] =
                    IF Then(h) = "nil"
                    THEN Goto([rq1 EXCEPT !.fault = "nil"], "Faulted")
                    ELSE Goto(rq1, "HandlerRunning")]
    /\ UNCHANGED <<pkg, chain, h, adapter, router>>

\* The terminal handler returns or panics; on return Chain.Outbound is
\* entered (line 145) and computes where its loop starts (lines 121-130).
HandlerReturn(r) ==
    /\ pkg = "middleware"
    /\ req[r].pc = "HandlerRunning"
    /\ LET rq    == req[r]
           start == OutboundStart(chain, rq.ctx)
       IN req' = [req EXCEPT ![r] =
                    IF Then(h) = "appPanics"
                    THEN Goto([rq EXCEPT !.fault = "handler"], "Faulted")
                    ELSE IF start < 0
                    THEN Goto(Goto(rq, "RunningOutbound"), "Done")
                    ELSE Goto([rq EXCEPT !.i = start], "RunningOutbound")]
    /\ UNCHANGED <<pkg, chain, h, adapter, router>>

\* Not the code: Outbound is handed the context the Then handler was called
\* with instead of the one Inbound returned
OutboundStepOriginalContext(r) ==
    /\ pkg = "middleware"
    /\ req[r].pc = "RunningOutbound"
    /\ LET rq == req[r]
           ev == Event("Out", rq.i, "stage", rq.ctx0, rq.ctx0)
           rq1 == [rq EXCEPT !.trace = Append(@, ev)]
       IN req' = [req EXCEPT ![r] =
                    IF rq.i >= Len(chain)
                    THEN Goto([rq EXCEPT !.fault = "index"], "Faulted")
                    ELSE IF rq.i = 0
                    THEN Goto(rq1, "Done")
                    ELSE [rq1 EXCEPT !.i = rq.i - 1]]
    /\ UNCHANGED <<pkg, chain, h, adapter, router>>

\* One iteration of the loop of Chain.Outbound, lines 130-132; c[i] with i
\* beyond the last stage is an index-out-of-range panic.
OutboundStep(r) ==
    /\ pkg = "middleware"
    /\ req[r].pc = "RunningOutbound"
    /\ LET rq == req[r]
           ev == Event("Out", rq.i, "stage", rq.ctx, rq.ctx)
           rq1 == [rq EXCEPT !.trace = Append(@, ev)]
       IN req' = [req EXCEPT ![r] =
                    IF rq.i >= Len(chain)
                    THEN Goto([rq EXCEPT !.fault = "index"], "Faulted")
                    ELSE IF rq.i = 0
                    THEN Goto(rq1, "Done")
                    ELSE [rq1 EXCEPT !.i = rq.i - 1]]
    /\ UNCHANGED <<pkg, chain, h, adapter, router>>

----------------------------------------------------------------------------
(* chain.Chain *)

\* chain.Chain.Then, lines 45-47: a nil handler is replaced by defaultHandler
ChainThen(hh) == IF hh = "nil" THEN defaultHandler ELSE hh

\* chain.Chain.Apply, lines 25-28: a nil base is replaced by Background
ApplyBase(base) == IF base.isNil THEN Background ELSE base

\* Not the code: the loop never ends early
ApplyNeverStops(ctx) == FALSE

\* chain.Chain.Apply, line 33: the test that ends the loop
ApplyStops(ctx) == ctx.err = "Canceled"

\* The Then handler is invoked and calls Apply (line 50), which picks its
\* base and starts its loop; an empty Chain returns the base at once.
ApplyEnter(r) ==
    /\ pkg = "chain"
    /\ req[r].pc = "NotStarted"
    /\ LET rq == [req[r] EXCEPT !.ctx = ApplyBase(@)]
       IN req' = [req EXCEPT ![r] =
                    IF Len(chain) = 0
                    THEN Goto(Goto(rq, "Applying"), "Applied")
                    ELSE Goto([rq EXCEPT !.i = 0], "Applying")]
    /\ UNCHANGED <<pkg, chain, h, adapter, router>>

\* One iteration of the loop of Apply, lines 30-36
ApplyStep(r) ==
    /\ pkg = "chain"
    /\ req[r].pc = "Applying"
    /\ LET rq   == req[r]
           kind == chain[rq.i + 1]
           out  == StageInbound(kind, rq.ctx, rq.deny)
           ev   == Event("T", rq.i, "stage", rq.ctx, out)
           rq1  == [rq EXCEPT !.trace = Append(@, ev)]
       IN req' = [req EXCEPT ![r] =
                    IF kind = "panic"
                    THEN Goto([rq1 EXCEPT !.fault = "inbound"], "Faulted")
                    ELSE IF ApplyStops(out) \/ rq.i + 1 = Len(chain)
                    THEN Goto([rq1 EXCEPT !.ctx = out], "Applied")
                    ELSE [rq1 EXCEPT !.ctx = out, !.i = rq.i + 1]]
    /\ UNCHANGED <<pkg, chain, h, adapter, router>>

\* Not the code: the handler is served with the context the Then handler
\* was called with instead of the one Apply returned
ChainHandlerCallOriginalContext(r) ==
    /\ pkg = "chain"
    /\ req[r].pc = "Applied"
    /\ LET rq == req[r]
           ev == Event("H", -1, ChainThen(h), rq.ctx0, rq.ctx0)
           rq1 == [rq EXCEPT !.trace = Append(@, ev)]
       IN req' = [req EXCEPT ![r] =
                    IF rq.ctx.err # "Canceled"
                    THEN IF ChainThen(h) = "nil"
                         THEN Goto([rq1 EXCEPT !.fault = "nil"], "Faulted")
                         ELSE Goto(rq1, "HandlerRunning")
                    ELSE Goto(rq, "Done")]
    /\ UNCHANGED <<pkg, chain, h, adapter, router>>

\* Not the code: the handler is served whatever Apply returned
ChainHandlerCallAlways(r) ==
    /\ pkg = "chain"
    /\ req[r].pc = "Applied"
    /\ LET rq == req[r]
           ev == Event("H", -1, ChainThen(h), rq.ctx, rq.ctx)
           rq1 == [rq EXCEPT !.trace = Append(@, ev)]
       IN req' = [req EXCEPT ![r] =
                    IF ChainThen(h) = "nil"
                    THEN Goto([rq1 EXCEPT !.fault = "nil"], "Faulted")
                    ELSE Goto(rq1, "HandlerRunning")]
    /\ UNCHANGED <<pkg, chain, h, adapter, router>>

\* chain.Chain.Then, lines 52-54: the handler is served unless the context
\* Apply returned is canceled
ChainHandlerCall(r) ==
    /\ pkg = "chain"
    /\ req[r].pc = "Applied"
    /\ LET rq == req[r]
           ev == Event("H", -1, ChainThen(h), rq.ctx, rq.ctx)
           rq1 == [rq EXCEPT !.trace = Append(@, ev)]
       IN req' = [req EXCEPT ![r] =
                    IF rq.ctx.err # "Canceled"
                    THEN IF ChainThen(h) = "nil"
                         THEN Goto([rq1 EXCEPT !.fault = "nil"], "Faulted")
                         ELSE Goto(rq1, "HandlerRunning")
                    ELSE Goto(rq, "Done")]
    /\ UNCHANGED <<pkg, chain, h, adapter, router>>

\* The terminal handler returns or panics (line 53); nothing follows it
ChainHandlerReturn(r) ==
    /\ pkg = "chain"
    /\ req[r].pc = "HandlerRunning"
    /\ req' = [req EXCEPT ![r] =
                 IF ChainThen(h) = "appPanics"
                 THEN Goto([@ EXCEPT !.fault = "handler"], "Faulted")
                 ELSE Goto(@, "Done")]
    /\ UNCHANGED <<pkg, chain, h, adapter, router>>

----------------------------------------------------------------------------
(* middleware.Chain, handler-wrapping variant (first file of the package) *)

\* What a Middleware func(Handler) Handler makes of the inner handler:
\*   tag    runs the inner handler once with the context it got
\*   setV   runs the inner handler once with a child context binding "key"
\*   short  returns without running the inner handler
WrapKinds == {"tag", "setV", "short"}

\* A handler built by wrapping is the sequence of the indices of the
\* middlewares around the endpoint, outermost first; c[i](hnd) puts i around
\* hnd.
WrapWith(i, hnd) == <<i>> \o hnd

RECURSIVE WrapFrom(_, _, _)
\* Chain.Then, lines 27-29: for i := len(c) - 1; i >= 0; i-- { h = c[i](h) }
WrapFrom(c, i, hnd) ==
    IF i < 0 THEN hnd ELSE WrapFrom(c, i - 1, WrapWith(i, hnd))

\* Not the code: the loop runs from the first middleware to the last
WrapperThenInnermostFirst(c) == [j \in 1..Len(c) |-> Len(c) - j]

\* Chain.Then, lines 22-32: the layers of the handler it returns
WrapperThen(c) == WrapFrom(c, Len(c) - 1, <<>>)

\* Chain.Then, lines 23-25: the endpoint inside the layers
WrapperEndpoint(hh) == IF hh = "nil" THEN defaultHandler ELSE hh

\* A request of the wrapped handler also keeps, per layer entered, the
\* context that layer was called with
NewWrapRequest(ctx0) ==
    NewRequest(ctx0, FALSE) @@ [stack |-> <<>>]

\* The wrapped handler is invoked
WrapServe(r) ==
    /\ pkg = "wrapper"
    /\ req[r].pc = "NotStarted"
    /\ req' = [req EXCEPT ![r] = Goto(@, "Descending")]
    /\ UNCHANGED <<pkg, chain, h, adapter, router>>

\* The next layer's middleware runs its part before the inner handler and
\* calls the inner handler, or returns without calling it
WrapEnter(r) ==
    /\ pkg = "wrapper"
    /\ req[r].pc = "Descending"
    /\ Len(req[r].stack) < Len(WrapperThen(chain))
    /\ LET rq   == req[r]
           mw   == WrapperThen(chain)[Len(rq.stack) + 1]
           kind == chain[mw + 1]
           out  == IF kind = "setV" THEN WithValue(rq.ctx, "v") ELSE rq.ctx
           ev   == Event("Pre", mw, "stage", rq.ctx, out)
           rq1  == [rq EXCEPT !.trace = Append(@, ev),
                              !.stack = Append(@, rq.ctx)]
       IN req' = [req EXCEPT ![r] =
                    IF kind = "short"
                    THEN Goto(rq1, "Ascending")
                    ELSE [rq1 EXCEPT !.ctx = out]]
    /\ UNCHANGED <<pkg, chain, h, adapter, router>>

\* The innermost handler is the endpoint
WrapEndpoint(r) ==
    /\ pkg = "wrapper"
    /\ req[r].pc = "Descending"
    /\ Len(req[r].stack) = Len(WrapperThen(chain))
    /\ LET rq  == req[r]
           ev  == Event("H", -1, WrapperEndpoint(h), rq.ctx, rq.ctx)
           rq1 == [rq EXCEPT !.trace = Append(@, ev)]
       IN req' = [req EXCEPT ![r] =
                    IF WrapperEndpoint(h) = "nil"
                    THEN Goto([rq1 EXCEPT !.fault = "nil"], "Faulted")
                    ELSE IF WrapperEndpoint(h) = "appPanics"
                    THEN Goto([rq1 EXCEPT !.fault = "handler"], "Faulted")
                    ELSE IF rq.stack = <<>>
                    THEN Goto(rq1, "Done")
                    ELSE Goto(rq1, "Ascending")]
    /\ UNCHANGED <<pkg, chain, h, adapter, router>>

\* The inner handler has returned to the innermost layer still open, whose
\* middleware runs its part after the inner handler and returns
WrapExit(r) ==
    /\ pkg = "wrapper"
    /\ req[r].pc = "Ascending"
    /\ LET rq  == req[r]
           d   == Len(rq.stack)
           mw  == WrapperThen(chain)[d]
           ev  == Event("Post", mw, "stage", rq.stack[d], rq.stack[d])
           rq1 == [rq EXCEPT !.trace = Append(@, ev),
                             !.stack = SubSeq(@, 1, d - 1)]
       IN req' = [req EXCEPT ![r] =
                    IF d = 1 THEN Goto(rq1, "Done") ELSE rq1]
    /\ UNCHANGED <<pkg, chain, h, adapter, router>>

----------------------------------------------------------------------------
(* middleware.Middleware: the forms a stage of a Chain can have *)

\* A stage is a value of one of the types that implement Middleware:
\*   Middleware  an application type with both methods
\*   Inbound     the func type whose Outbound does nothing (lines 70-79)
\*   Outbound    the func type whose Inbound returns its argument (83-95)
\*   Chain       a Chain (lines 99-133), whose stages are in inner
\* kind is what the application's Inbound function does (see StageInbound).
MkStage(form, kind, inner) == [form |-> form, kind |-> kind, inner |-> inner]

FormKinds == {"pass", "guard"}

SimpleStages ==
    {MkStage(f, k, <<>>) : f \in {"Middleware", "Inbound"}, k \in FormKinds}
      \cup {MkStage("Outbound", "pass", <<>>)}

\* The stages of a Chain that is itself a stage: application types
InnerStages == {MkStage("Middleware", k, <<>>) : k \in FormKinds}

ChainStages == {MkStage("Chain", "pass", c) : c \in SeqsUpTo(InnerStages, MaxInner)}

\* Inbound.Inbound, lines 74-76: calls the function
InboundInbound(kind, ctx, deny) == StageInbound(kind, ctx, deny)

\* Not the code: the Outbound type's Inbound returns a new root context
OutboundInboundFresh(ctx) == Background

\* Outbound.Inbound, lines 87-89: returns the context it was given
OutboundInbound(ctx) == ctx

\* Which code a stage's Outbound method runs: the application's function
\* ("fn"), or nothing for the Inbound type (line 79)
OutboundRuns(form) == IF form = "Inbound" THEN "noop" ELSE "fn"

\* The result of a method call: the context returned, the calls made on
\* stages that are not Chains (idx is the path of the stage: its index, or
\* the index of the Chain it is in followed by its index in that Chain), and
\* the fault that ended it, if any
Result(ctx, events, fault) == [ctx |-> ctx, events |-> events, fault |-> fault]

RECURSIVE InboundFrom(_, _, _, _, _), MwInbound(_, _, _, _)

\* st.Inbound(ctx, w, r), by the type of st
MwInbound(st, ctx, deny, path) ==
    CASE st.form = "Chain" ->
            InboundFrom(st.inner, 0, ctx, deny, path)
      [] st.form = "Outbound" ->
            Result(OutboundInbound(ctx),
                   <<Event("In", path, "noop", ctx, OutboundInbound(ctx))>>, "none")
      [] OTHER ->
            LET out == InboundInbound(st.kind, ctx, deny)
            IN Result(out, <<Event("In", path, "fn", ctx, out)>>,
                      IF st.kind = "panic" THEN "inbound" ELSE "none")

\* Chain.Inbound, lines 108-115, from stage i on
InboundFrom(c, i, ctx, deny, path) ==
    IF i >= Len(c) THEN Result(ctx, <<>>, "none")
    ELSE LET res == MwInbound(c[i + 1], ctx, deny, Append(path, i))
         IN IF res.fault # "none" THEN res
            ELSE IF canceled(res.ctx)
            THEN Result(WithReached(res.ctx, i), res.events, "none")
            ELSE LET rest == InboundFrom(c, i + 1, res.ctx, deny, path)
                 IN Result(rest.ctx, res.events \o rest.events, rest.fault)

\* Chain.Inbound, lines 103-116
ChainInbound(c, ctx, deny, path) == InboundFrom(c, 0, ctx, deny, path)

RECURSIVE OutboundFrom(_, _, _, _), MwOutbound(_, _, _)

\* st.Outbound(ctx, r), by the type of st
MwOutbound(st, ctx, path) ==
    IF st.form = "Chain"
    THEN OutboundFrom(st.inner, OutboundStart(st.inner, ctx), ctx, path)
    ELSE Result(ctx, <<Event("Out", path, OutboundRuns(st.form), ctx, ctx)>>, "none")

\* Chain.Outbound, lines 130-132, from stage i down; c[i] with i beyond the
\* last stage is an index-out-of-range panic
OutboundFrom(c, i, ctx, path) ==
    IF i < 0 THEN Result(ctx, <<>>, "none")
    ELSE IF i >= Len(c) THEN Result(ctx, <<>>, "index")
    ELSE LET res == MwOutbound(c[i + 1], ctx, Append(path, i))
         IN IF res.fault # "none" THEN res
            ELSE LET rest == OutboundFrom(c, i - 1, ctx, path)
                 IN Result(ctx, res.events \o rest.events, rest.fault)

\* Chain.Outbound, lines 120-133
ChainOutbound(c, ctx, path) == OutboundFrom(c, OutboundStart(c, ctx), ctx, path)

\* Chain.Then, line 143: ctx = c.Inbound(ctx, w, r)
FormsInbound(r) ==
    /\ pkg = "forms"
    /\ req[r].pc = "NotStarted"
    /\ LET rq  == req[r]
           res == ChainInbound(chain, rq.ctx, rq.deny, <<>>)
           rq1 == [rq EXCEPT !.trace = @ \o res.events, !.ctx = res.ctx]
       IN req' = [req EXCEPT ![r] =
                    IF res.fault # "none"
                    THEN Goto([rq1 EXCEPT !.fault = res.fault], "Faulted")
                    ELSE Goto(rq1, "InboundReturned")]
    /\ UNCHANGED <<pkg, chain, h, adapter, router>>

\* Chain.Then, line 144: h.Serve(ctx, w, r)
FormsHandler(r) ==
    /\ pkg = "forms"
    /\ req[r].pc = "InboundReturned"
    /\ LET rq  == req[r]
           ev  == Event("H", <<>>, Then(h), rq.ctx, rq.ctx)
           rq1 == [rq EXCEPT !.trace = Append(@, ev)]
       IN req' = [req EXCEPT ![r] =
                    IF Then(h) = "appPanics"
                    THEN Goto([rq1 EXCEPT !.fault = "handler"], "Faulted")
                    ELSE Goto(rq1, "HandlerReturned")]
    /\ UNCHANGED <<pkg, chain, h, adapter, router>>

\* Chain.Then, line 145: c.Outbound(ctx, r)
FormsOutbound(r) ==
    /\ pkg = "forms"
    /\ req[r].pc = "HandlerReturned"
    /\ LET rq  == req[r]
           res == ChainOutbound(chain, rq.ctx, <<>>)
           rq1 == [rq EXCEPT !.trace = @ \o res.events]
       IN req' = [req EXCEPT ![r] =
                    IF res.fault # "none"
                    THEN Goto([rq1 EXCEPT !.fault = res.fault], "Faulted")
                    ELSE Goto(rq1, "Done")]
    /\ UNCHANGED <<pkg, chain, h, adapter, router>>

----------------------------------------------------------------------------
(* The routers: handlerShim of each variant *)

\* The variants: Router{router, init} built by New(router, init); Router{router,
\* base, init} built by NewRouter; RouterAdapter{Router, Base, Init} built by
\* NewRouterAdapter; router.Router{router, mw} built by router.New(router, mw)
InitFuncRouters == {"New", "NewRouter", "NewRouterAdapter"}

MwRouter == "router.New"

\* The route parameters httprouter hands to the shim
ParamValues == {"p1", "p2"}

\* context.WithValue(ctx, ParamKey, p)
WithParams(ctx, p) ==
    [x \in DOMAIN ctx \cup {"params"} |-> IF x = "params" THEN p ELSE ctx[x]]

\* Params(c): c.Value(ParamKey), nil when the context has none
Params(c) == IF "params" \in DOMAIN c THEN c.params ELSE "nil"

\* What an InitFunc does with the context (see StageInbound); "nil" is no
\* InitFunc
InitFuncs == {"nil", "pass", "setV", "guard", "deadline", "fresh"}

NilMiddleware == [form |-> "nil", kind |-> "pass", inner |-> <<>>]

\* New(router, init): the shim of this variant starts from context.Background()
New(init) == [base |-> Background, init |-> init, mw |-> NilMiddleware]

\* NewRouter(router, base, init), NewRouterAdapter(router, base, init): a nil
\* base becomes context.Background()
NewRouter(base, init) ==
    [base |-> IF base.isNil THEN Background ELSE base, init |-> init,
     mw |-> NilMiddleware]

\* router.New(router, mw): the shim starts from context.Background()
RouterNew(mw) == [base |-> Background, init |-> "nil", mw |-> mw]

\* Not the code: only a cancelled context counts as done
RouterDoneOnlyCanceled(ctx) == ctx.err = "Canceled"

\* select { case <-ctx.Done(): ...; default: }
RouterDone(ctx) == ctx.err # "nil"

NewRouterRequest(p, deny) == NewRequest(NilContext, deny) @@ [params |-> p]

\* handlerShim of the InitFunc variants, up to the call of the endpoint: the
\* context is built, then init, if any, transforms it, and the shim returns if
\* the result is done
RouterShim(r) ==
    /\ pkg \in InitFuncRouters
    /\ req[r].pc = "NotStarted"
    /\ LET rq  == req[r]
           ctx == WithParams(router.base, rq.params)
           out == StageInbound(router.init, ctx, rq.deny)
           ev  == Event("Init", <<>>, router.init, ctx, out)
       IN req' = [req EXCEPT ![r] =
                    IF router.init = "nil"
                    THEN Goto([rq EXCEPT !.ctx = ctx, !.ctx0 = ctx], "Initialized")
                    ELSE LET rq1 == [rq EXCEPT !.ctx = out, !.ctx0 = ctx,
                                               !.trace = Append(@, ev)]
                         IN IF RouterDone(out) THEN Goto(rq1, "Done")
                            ELSE Goto(rq1, "Initialized")]
    /\ UNCHANGED <<pkg, chain, h, adapter, router>>

\* handlerShim of the InitFunc variants: ctxHandle.Serve(ctx, w, r)
RouterServe(r) ==
    /\ pkg \in InitFuncRouters
    /\ req[r].pc = "Initialized"
    /\ LET rq  == req[r]
           rq1 == [rq EXCEPT !.trace = Append(@, Event("H", <<>>, h, rq.ctx, rq.ctx))]
       IN req' = [req EXCEPT ![r] =
                    IF h = "appPanics"
                    THEN Goto([rq1 EXCEPT !.fault = "handler"], "Faulted")
                    ELSE Goto(rq1, "Done")]
    /\ UNCHANGED <<pkg, chain, h, adapter, router>>

\* router.handlerShim, lines 140-145: the context is built and, when there is
\* a middleware, ctx = router.mw.Inbound(ctx, w, r)
MwRouterInbound(r) ==
    /\ pkg = MwRouter
    /\ req[r].pc = "NotStarted"
    /\ LET rq  == req[r]
           ctx == WithParams(Background, rq.params)
           res == IF router.mw.form = "nil" THEN Result(ctx, <<>>, "none")
                  ELSE MwInbound(router.mw, ctx, rq.deny, <<>>)
           rq1 == [rq EXCEPT !.ctx = res.ctx, !.ctx0 = ctx, !.trace = @ \o res.events]
       IN req' = [req EXCEPT ![r] = Goto(rq1, "InboundReturned")]
    /\ UNCHANGED <<pkg, chain, h, adapter, router>>

\* router.handlerShim, line 146 (with a middleware) or line 152 (without):
\* ctxHandle.Serve(ctx, w, r)
MwRouterServe(r) ==
    /\ pkg = MwRouter
    /\ req[r].pc = "InboundReturned"
    /\ LET rq  == req[r]
           rq1 == [rq EXCEPT !.trace = Append(@, Event("H", <<>>, h, rq.ctx, rq.ctx))]
       IN req' = [req EXCEPT ![r] =
                    IF h = "appPanics"
                    THEN Goto([rq1 EXCEPT !.fault = "handler"], "Faulted")
                    ELSE Goto(rq1, "HandlerReturned")]
    /\ UNCHANGED <<pkg, chain, h, adapter, router>>

\* router.handlerShim, line 147: router.mw.Outbound(ctx, r), when there is a
\* middleware
MwRouterOutbound(r) ==
    /\ pkg = MwRouter
    /\ req[r].pc = "HandlerReturned"
    /\ LET rq  == req[r]
           res == IF router.mw.form = "nil" THEN Result(rq.ctx, <<>>, "none")
                  ELSE MwOutbound(router.mw, rq.ctx, <<>>)
           rq1 == [rq EXCEPT !.trace = @ \o res.events]
       IN req' = [req EXCEPT ![r] =
                    IF res.fault # "none"
                    THEN Goto([rq1 EXCEPT !.fault = res.fault], "Faulted")
                    ELSE Goto(rq1, "Done")]
    /\ UNCHANGED <<pkg, chain, h, adapter, router>>

----------------------------------------------------------------------------
(* contextual.Adapter *)

\* Not the code: a nil base context is stored as it is
NewAdapterKeepsNil(hh, c) == [c |-> c, handler |-> hh, arg |-> c]

\* NewAdapter(h, c), lines 18-23: a nil c becomes context.Background().  arg
\* is not a field of the struct: it records the c the constructor was given.
NewAdapter(hh, c) ==
    [c |-> IF c.isNil THEN Background ELSE c, handler |-> hh, arg |-> c]

\* The requests that have been served to the end
Finished == {q \in DOMAIN req : req[q].pc \in {"Done", "Faulted"}}

\* Adapter.ServeHTTP, line 27: a.handler.Serve(a.c, w, r); with a nil handler
\* the call is a nil dereference.  The call records how many requests had
\* been served to the end before it.
AdapterServeHTTP(r) ==
    /\ pkg = "adapter"
    /\ req[r].pc = "NotStarted"
    /\ LET rq == req[r]
           ev == Event("H", Cardinality(Finished), adapter.handler, adapter.c, adapter.c)
       IN req' = [req EXCEPT ![r] =
                    IF adapter.handler = "nil"
                    THEN Goto([rq EXCEPT !.fault = "nil"], "Faulted")
                    ELSE Goto([rq EXCEPT !.ctx = adapter.c, !.ctx0 = adapter.c,
                                         !.trace = Append(@, ev)], "HandlerRunning")]
    /\ UNCHANGED <<pkg, chain, h, adapter, router>>

\* The handler derives a context of its own from the one it was given: it
\* binds a value, or cancels it (context.WithCancel and cancel())
AdapterHandlerDerive(r) ==
    /\ pkg = "adapter"
    /\ req[r].pc = "HandlerRunning"
    /\ req[r].i = 0
    /\ \E derived \in {WithValue(req[r].ctx, "v"), Cancel(req[r].ctx)} :
          req' = [req EXCEPT ![r] = [@ EXCEPT !.ctx = derived, !.i = 1]]
    /\ UNCHANGED <<pkg, chain, h, adapter, router>>

\* The handler returns, or panics
AdapterHandlerReturn(r) ==
    /\ pkg = "adapter"
    /\ req[r].pc = "HandlerRunning"
    /\ req' = [req EXCEPT ![r] =
                 IF adapter.handler = "appPanics"
                 THEN Goto([@ EXCEPT !.fault = "handler"], "Faulted")
                 ELSE Goto(@, "Done")]
    /\ UNCHANGED <<pkg, chain, h, adapter, router>>

----------------------------------------------------------------------------
(* Specifications *)

\* A caller of chain.Chain.Then may also pass a nil context (Apply's base)
CallerContexts(p) ==
    IF p = "chain" THEN InitialContexts \cup {NilContext} ELSE InitialContexts

Requests(p) == {NewRequest(c, d) : c \in CallerContexts(p), d \in BOOLEAN}

\* One request through a Chain of either package
Init ==
    /\ pkg \in {"middleware", "chain"}
    /\ chain \in Chains
    /\ h \in Handlers
    /\ req \in [{1} -> Requests(pkg)]
    /\ adapter = NoAdapter
    /\ router = NoRouter

Next ==
    \/ \E r \in DOMAIN req : Serve(r)
    \/ \E r \in DOMAIN req : InboundStep(r)
    \/ \E r \in DOMAIN req : HandlerCall(r)
    \/ \E r \in DOMAIN req : HandlerReturn(r)
    \/ \E r \in DOMAIN req : OutboundStep(r)
    \/ \E r \in DOMAIN req : ApplyEnter(r)
    \/ \E r \in DOMAIN req : ApplyStep(r)
    \/ \E r \in DOMAIN req : ChainHandlerCall(r)
    \/ \E r \in DOMAIN req : ChainHandlerReturn(r)

Spec == Init /\ [][Next]_vars

\* Two requests running the same middleware.Chain.Then handler, their
\* callbacks interleaved in any order.  Each request has its own context,
\* built by the dispatcher.
ConcKinds == {"pass", "setV", "guard", "fresh"}

ConcContexts == {Background, WithValue(Background, "w"), Cancel(Background)}

InitConc ==
    /\ pkg = "middleware"
    /\ chain \in SeqsUpTo(ConcKinds, MaxStagesConc)
    /\ h \in {"nil", "app"}
    /\ req \in [{1, 2} -> {NewRequest(c, d) : c \in ConcContexts, d \in BOOLEAN}]
    /\ adapter = NoAdapter
    /\ router = NoRouter

NextConc ==
    \/ \E r \in DOMAIN req : Serve(r)
    \/ \E r \in DOMAIN req : InboundStep(r)
    \/ \E r \in DOMAIN req : HandlerCall(r)
    \/ \E r \in DOMAIN req : HandlerReturn(r)
    \/ \E r \in DOMAIN req : OutboundStep(r)

SpecConc == InitConc /\ [][NextConc]_vars

\* One request through a handler built by the handler-wrapping Chain.Then
InitWrap ==
    /\ pkg = "wrapper"
    /\ chain \in SeqsUpTo(WrapKinds, MaxStages)
    /\ h \in Handlers
    /\ req \in [{1} -> {NewWrapRequest(c) : c \in InitialContexts}]
    /\ adapter = NoAdapter
    /\ router = NoRouter

NextWrap ==
    \/ \E r \in DOMAIN req : WrapServe(r)
    \/ \E r \in DOMAIN req : WrapEnter(r)
    \/ \E r \in DOMAIN req : WrapEndpoint(r)
    \/ \E r \in DOMAIN req : WrapExit(r)

SpecWrap == InitWrap /\ [][NextWrap]_vars

\* One request through a middleware.Chain whose stages are of any of the
\* types that implement Middleware, Chains included
InitForms ==
    /\ pkg = "forms"
    /\ chain \in SeqsUpTo(SimpleStages \cup ChainStages, MaxOuter)
    /\ h \in {"app", "appPanics"}
    /\ req \in [{1} -> {NewRequest(c, d) :
                          c \in {Background, WithValue(Background, "w")},
                          d \in BOOLEAN}]
    /\ adapter = NoAdapter
    /\ router = NoRouter

NextForms ==
    \/ \E r \in DOMAIN req : FormsInbound(r)
    \/ \E r \in DOMAIN req : FormsHandler(r)
    \/ \E r \in DOMAIN req : FormsOutbound(r)

SpecForms == InitForms /\ [][NextForms]_vars

\* The base contexts a router can be constructed with
BaseContexts == {NilContext, Background, WithValue(Background, "w"), Cancel(Background)}

\* One routed request through a router of any of the variants
InitRouter ==
    /\ pkg \in InitFuncRouters \cup {MwRouter}
    /\ chain = <<>>
    /\ h \in {"app", "appPanics"}
    /\ req \in [{1} -> {NewRouterRequest(p, d) : p \in ParamValues, d \in BOOLEAN}]
    /\ adapter = NoAdapter
    /\ router \in CASE pkg = "New" -> {New(f) : f \in InitFuncs}
                    [] pkg = MwRouter ->
                         {RouterNew(m) : m \in {NilMiddleware} \cup SimpleStages \cup ChainStages}
                    [] OTHER -> {NewRouter(b, f) : b \in BaseContexts, f \in InitFuncs}

NextRouter ==
    \/ \E r \in DOMAIN req : RouterShim(r)
    \/ \E r \in DOMAIN req : RouterServe(r)
    \/ \E r \in DOMAIN req : MwRouterInbound(r)
    \/ \E r \in DOMAIN req : MwRouterServe(r)
    \/ \E r \in DOMAIN req : MwRouterOutbound(r)

SpecRouter == InitRouter /\ [][NextRouter]_vars

\* Several requests, served in any interleaving, through one Adapter
InitAdapter ==
    /\ pkg = "adapter"
    /\ chain = <<>>
    /\ h \in Handlers
    /\ adapter \in {NewAdapter(h, c) : c \in BaseContexts}
    /\ req = [q \in 1..MaxRequests |-> NewRequest(NilContext, FALSE)]
    /\ router = NoRouter

NextAdapter ==
    \/ \E r \in DOMAIN req : AdapterServeHTTP(r)
    \/ \E r \in DOMAIN req : AdapterHandlerDerive(r)
    \/ \E r \in DOMAIN req : AdapterHandlerReturn(r)

SpecAdapter == InitAdapter /\ [][NextAdapter]_vars

\* One request through each component that tests the context a callback
\* returned: a Chain of either package, or a router with an InitFunc
InitTests ==
    \/ Init
    \/ InitRouter /\ pkg \in InitFuncRouters

NextTests ==
    \/ \E r \in DOMAIN req : Serve(r)
    \/ \E r \in DOMAIN req : InboundStep(r)
    \/ \E r \in DOMAIN req : HandlerCall(r)
    \/ \E r \in DOMAIN req : HandlerReturn(r)
    \/ \E r \in DOMAIN req : OutboundStep(r)
    \/ \E r \in DOMAIN req : ApplyEnter(r)
    \/ \E r \in DOMAIN req : ApplyStep(r)
    \/ \E r \in DOMAIN req : ChainHandlerCall(r)
    \/ \E r \in DOMAIN req : ChainHandlerReturn(r)
    \/ \E r \in DOMAIN req : RouterShim(r)
    \/ \E r \in DOMAIN req : RouterServe(r)

SpecTests == InitTests /\ [][NextTests]_vars

----------------------------------------------------------------------------
(* What a request's trace shows *)

Range(s) == {s[j] : j \in DOMAIN s}

IsPrefix(s, t) == Len(s) <= Len(t) /\ \A j \in 1..Len(s) : s[j] = t[j]

\* The stage indices of the calls of one kind, in the order they were made
IdxOf(rq, op) ==
    LET sel == SelectSeq(rq.trace, LAMBDA e : e.op = op)
    IN [j \in 1..Len(sel) |-> sel[j].idx]

\* <<0, 1, ..., k>> and <<k, k-1, ..., 0>>
UpTo(k) == [j \in 1..(k + 1) |-> j - 1]

DownFrom(k) == [j \in 1..(k + 1) |-> k + 1 - j]

\* The calls made, without the contexts: <<"In", 0>>, <<"H", -1>>, ...
Calls(rq) == [j \in 1..Len(rq.trace) |-> <<rq.trace[j].op, rq.trace[j].idx>>]

\* m inbound calls in order, the terminal handler, then the outbound calls
\* of stages start, start-1, ..., 0
RoundTrip(m, start) ==
    [j \in 1..(m + start + 2) |->
        IF j <= m THEN <<"In", j - 1>>
        ELSE IF j = m + 1 THEN <<"H", -1>>
        ELSE <<"Out", start + m + 2 - j>>]

\* The positions in the trace of the Inbound calls that returned a cancelled
\* context
CancelPositions(rq) ==
    {j \in 1..Len(rq.trace) : rq.trace[j].op = "In" /\ canceled(rq.trace[j].ret)}

Min(S) == CHOOSE x \in S : \A y \in S : x <= y

\* Every call of op1 was made before every call of op2
AllBefore(rq, op1, op2) ==
    \A a, b \in 1..Len(rq.trace) :
        rq.trace[a].op = op1 /\ rq.trace[b].op = op2 => a < b

----------------------------------------------------------------------------
(* Claims *)

\* C1: in a non-empty middleware.Chain none of whose stages returns a
\* cancelled context, the calls of one request are, in this order, Inbound of
\* stages 0..n-1, the terminal handler, Outbound of stages n-1..0, each once:
\* at every moment the calls made are a prefix of that sequence, and a
\* request that is done has made all of them.
C1_NoCancelOrder ==
    \A r \in DOMAIN req :
        LET rq == req[r]
            n  == Len(chain)
        IN (pkg = "middleware" /\ n > 0 /\ CancelPositions(rq) = {}) =>
              /\ IsPrefix(Calls(rq), RoundTrip(n, n - 1))
              /\ rq.pc = "Done" => Calls(rq) = RoundTrip(n, n - 1)

C1_Witness ==
    \E r \in DOMAIN req :
        /\ pkg = "middleware" /\ Len(chain) = 3 /\ req[r].pc = "Done"
        /\ CancelPositions(req[r]) = {}
        /\ Calls(req[r]) = <<  <<"In", 0>>, <<"In", 1>>, <<"In", 2>>, <<"H", -1>>,
                               <<"Out", 2>>, <<"Out", 1>>, <<"Out", 0>>  >>

\* C2: when stage k is the first stage of a middleware.Chain whose Inbound
\* returns a cancelled context, the Inbound calls are exactly those of stages
\* 0..k in order, the Outbound calls come after them and are those of stages
\* k, k-1, ..., 0 in order (all of them once the request is done), and no
\* stage after k is called at all.
C2_CancelUnwind ==
    \A r \in DOMAIN req :
        LET rq == req[r]
        IN (pkg = "middleware" /\ CancelPositions(rq) # {}) =>
              LET k == rq.trace[Min(CancelPositions(rq))].idx
              IN /\ IdxOf(rq, "In") = UpTo(k)
                 /\ IsPrefix(IdxOf(rq, "Out"), DownFrom(k))
                 /\ AllBefore(rq, "In", "Out")
                 /\ rq.pc = "Done" => IdxOf(rq, "Out") = DownFrom(k)
                 /\ \A e \in Range(rq.trace) : e.op \in {"In", "Out"} => e.idx <= k

C2_Witness ==
    \E r \in DOMAIN req :
        /\ pkg = "middleware" /\ Len(chain) = 3 /\ req[r].pc = "Done"
        /\ req[r].ctx0 = Background
        /\ chain[2] = "guard" /\ chain[1] # "guard"
        /\ IdxOf(req[r], "In") = <<0, 1>>
        /\ IdxOf(req[r], "Out") = <<1, 0>>

\* C3: the terminal handler of a middleware.Chain.Then handler is invoked
\* only if no stage's Inbound returned a cancelled context.
C3_HandlerOnlyIfNotCancelled ==
    \A r \in DOMAIN req :
        pkg = "middleware" =>
            \A e \in Range(req[r].trace) :
                e.op = "H" => CancelPositions(req[r]) = {}

\* The Inbound calls of a request that returned (a stage that panics did not)
ReturnedIn(rq) ==
    LET ins == IdxOf(rq, "In")
    IN IF rq.fault = "inbound" THEN SubSeq(ins, 1, Len(ins) - 1) ELSE ins

Reverse(s) == [j \in 1..Len(s) |-> s[Len(s) + 1 - j]]

\* C4: when the terminal handler panics, or the Inbound of a stage panics,
\* the Outbound of every stage whose Inbound already ran has been called, in
\* reverse order, by the time the panic leaves the Then handler.
C4_OutboundOnFault ==
    \A r \in DOMAIN req :
        (pkg = "middleware" /\ req[r].pc = "Faulted"
                            /\ req[r].fault \in {"inbound", "handler"}) =>
            IdxOf(req[r], "Out") = Reverse(ReturnedIn(req[r]))

\* The paths of the state machine of one request
PhasePaths ==
    {<<"NotStarted", "RunningInbound">> \o mid \o <<"RunningOutbound", "Done">> :
        mid \in {<<"Cancelled">>, <<"InboundComplete">>,
                 <<"Cancelled", "HandlerRunning">>,
                 <<"InboundComplete", "HandlerRunning">>}}

\* C5: a request whose callbacks all return moves along NotStarted,
\* RunningInbound, Cancelled or InboundComplete, [HandlerRunning],
\* RunningOutbound, Done: it never leaves that path (so it never ends in a
\* fault) and Done occurs on it once.
C5_PhasesToDone ==
    \A r \in DOMAIN req :
        (pkg = "middleware" /\ req[r].fault \notin {"inbound", "handler"}) =>
            \E p \in PhasePaths : IsPrefix(req[r].phases, p)

\* The context the inbound pass of a request handed on: the cancelling
\* stage's context with the request's own marker, or the last stage's
\* context, or the caller's context when the Chain is empty
OwnInboundResult(rq) ==
    LET ins == SelectSeq(rq.trace, LAMBDA e : e.op = "In")
    IN IF ins = <<>> THEN rq.ctx0
       ELSE LET last == ins[Len(ins)]
            IN IF canceled(last.ret) THEN WithReached(last.ret, last.idx)
               ELSE last.ret

\* Each Inbound call of a request sees the caller's context (the first) or
\* what the request's previous Inbound call returned
OwnThreading(rq) ==
    LET ins == SelectSeq(rq.trace, LAMBDA e : e.op = "In")
    IN \A j \in 1..Len(ins) :
          ins[j].seen = IF j = 1 THEN rq.ctx0 ELSE ins[j - 1].ret

\* C6: two requests running the same middleware.Chain.Then handler, in any
\* interleaving, do not interfere: each one's Outbound calls are those of
\* the stages whose Inbound it ran itself, in reverse (all of them once it is
\* done), and every context its callbacks see comes from its own caller's
\* context through its own Inbound calls.
C6_NoInterference ==
    \A r \in DOMAIN req :
        LET rq == req[r]
        IN /\ IsPrefix(IdxOf(rq, "Out"), Reverse(IdxOf(rq, "In")))
           /\ rq.pc = "Done" => IdxOf(rq, "Out") = Reverse(IdxOf(rq, "In"))
           /\ OwnThreading(rq)
           /\ \A e \in Range(rq.trace) :
                 e.op \in {"H", "Out"} => e.seen = OwnInboundResult(rq)
           /\ rq.pc # "Faulted"

C6_Witness ==
    /\ DOMAIN req = {1, 2} /\ Len(chain) = 2
    /\ req[1].pc = "Done" /\ req[2].pc = "Done"
    /\ CancelPositions(req[1]) # {} /\ IdxOf(req[1], "Out") = <<0>>
    /\ CancelPositions(req[2]) = {} /\ IdxOf(req[2], "Out") = <<1, 0>>
    /\ req[1].ctx # req[2].ctx

\* C7: the handler of the empty middleware.Chain{}.Then(h) does what h does:
\* h is called once with the caller's context, no stage is called, and the
\* request faults only if h does.
C7_EmptyChainIsHandler ==
    \A r \in DOMAIN req :
        LET rq == req[r]
        IN (pkg = "middleware" /\ Len(chain) = 0 /\ h # "nil") =>
              /\ IsPrefix(Calls(rq), << <<"H", -1>> >>)
              /\ \A e \in Range(rq.trace) : e.who = h /\ e.seen = rq.ctx0
              /\ rq.pc = "Done" => Len(rq.trace) = 1
              /\ rq.pc = "Faulted" => rq.fault = "handler"

\* The number of calls of the terminal handler
HandlerCalls(rq) == Len(SelectSeq(rq.trace, LAMBDA e : e.op = "H"))

\* C8: when Chain.Then was given nil (either package), nil is never called:
\* the handler called is defaultHandler, in the terminal-handler position
\* (after every Inbound or Transformer call and before every Outbound call),
\* once, and no nil dereference occurs.
C8_NilFallsBack ==
    \A r \in DOMAIN req :
        LET rq == req[r]
        IN /\ rq.fault # "nil"
           /\ \A e \in Range(rq.trace) : e.op = "H" => e.who # "nil"
           /\ h = "nil" =>
                /\ \A e \in Range(rq.trace) : e.op = "H" => e.who = defaultHandler
                /\ AllBefore(rq, "In", "H") /\ AllBefore(rq, "T", "H")
                /\ AllBefore(rq, "H", "Out")
                /\ HandlerCalls(rq) <= 1
                /\ (rq.pc = "Done" /\ pkg = "middleware") => HandlerCalls(rq) = 1
                /\ (rq.pc = "Done" /\ pkg = "chain" /\ rq.ctx.err # "Canceled")
                      => HandlerCalls(rq) = 1

C8_Witness ==
    \E r \in DOMAIN req :
        /\ h = "nil" /\ pkg = "middleware" /\ Len(chain) = 2
        /\ req[r].pc = "Done"
        /\ Calls(req[r]) = << <<"In", 0>>, <<"In", 1>>, <<"H", -1>>,
                              <<"Out", 1>>, <<"Out", 0>> >>
        /\ req[r].trace[3].who = defaultHandler

\* The stages that bind "key", and those after which an earlier binding is no
\* longer in effect: the ones that bind it again and the ones that return a
\* context not derived from the one they were given
Setters == {"setV", "setW"}

Overriders == Setters \cup {"fresh"}

\* C9: the value a stage's Inbound binds in the context it returns is what
\* every later callback of the request sees under that key (the Inbound of
\* the following stages, the terminal handler, every Outbound), as long as
\* no stage in between has overridden it.
C9_ValueVisible ==
    \A r \in DOMAIN req :
        LET t == req[r].trace
        IN pkg = "middleware" =>
             \A a, b \in 1..Len(t) :
                (/\ a < b
                 /\ t[a].op = "In" /\ chain[t[a].idx + 1] \in Setters
                 /\ \A m \in (a + 1)..(b - 1) :
                        ~(t[m].op = "In" /\ chain[t[m].idx + 1] \in Overriders))
                => t[b].seen.val = t[a].ret.val

C9_Witness ==
    \E r \in DOMAIN req :
        /\ pkg = "middleware" /\ chain = <<"setV", "pass", "guard">>
        /\ req[r].ctx0 = WithValue(Background, "w") /\ req[r].deny
        /\ req[r].pc = "Done"
        /\ \A j \in 2..Len(req[r].trace) : req[r].trace[j].seen.val = "v"
        /\ Calls(req[r]) = << <<"In", 0>>, <<"In", 1>>, <<"In", 2>>, <<"H", -1>>,
                              <<"Out", 2>>, <<"Out", 1>>, <<"Out", 0>> >>

\* Apply has returned: the Then handler holds the context it returned
ApplyReturned(rq) ==
    rq.pc \in {"Applied", "HandlerRunning", "Done"} \/ rq.fault \in {"handler", "nil"}

\* C10: chain.Chain.Apply calls the Transformers in declared order, the
\* first with the base context (Background when the base is nil), each next
\* one with the context the previous one returned; a Transformer that
\* returns a canceled context is the last one called, and Apply returns the
\* context the last Transformer called returned.
C10_ApplyOrder ==
    \A r \in DOMAIN req :
        LET rq == req[r]
            ts == SelectSeq(rq.trace, LAMBDA e : e.op = "T")
        IN pkg = "chain" =>
            /\ IdxOf(rq, "T") = UpTo(Len(ts) - 1)
            /\ Len(ts) <= Len(chain)
            /\ \A j \in 1..Len(ts) :
                  /\ ts[j].seen = IF j > 1 THEN ts[j - 1].ret
                                  ELSE IF rq.ctx0.isNil THEN Background
                                  ELSE rq.ctx0
                  /\ ts[j].ret.err = "Canceled" => j = Len(ts)
            /\ ApplyReturned(rq) =>
                  /\ rq.ctx = IF ts # <<>> THEN ts[Len(ts)].ret
                              ELSE IF rq.ctx0.isNil THEN Background
                              ELSE rq.ctx0
                  /\ \/ Len(ts) = Len(chain)
                     \/ ts[Len(ts)].ret.err = "Canceled"

C10_Witness ==
    \E r \in DOMAIN req :
        /\ pkg = "chain" /\ chain = <<"setV", "guard", "setW">>
        /\ req[r].ctx0 = NilContext /\ req[r].deny
        /\ req[r].pc = "Done"
        /\ IdxOf(req[r], "T") = <<0, 1>>
        /\ req[r].trace[1].seen = Background
        /\ req[r].ctx = Cancel(WithValue(Background, "v"))

\* C11: the handler of chain.Chain.Then(h) calls h only after Apply has run
\* the whole chain, with the context Apply returned, and only if that context
\* is not canceled: once if it is not, never if it is.
C11_ThenAfterApply ==
    \A r \in DOMAIN req :
        LET rq == req[r]
            ts == SelectSeq(rq.trace, LAMBDA e : e.op = "T")
        IN pkg = "chain" =>
            /\ AllBefore(rq, "T", "H")
            /\ HandlerCalls(rq) <= 1
            /\ \A e \in Range(rq.trace) :
                  e.op = "H" => /\ e.seen = rq.ctx
                                /\ e.seen = IF ts # <<>> THEN ts[Len(ts)].ret
                                            ELSE ApplyBase(rq.ctx0)
                                /\ e.seen.err # "Canceled"
                                /\ Len(ts) = Len(chain)
            /\ rq.pc = "Done" =>
                  HandlerCalls(rq) = IF rq.ctx.err = "Canceled" THEN 0 ELSE 1

C11_Witness ==
    \E r \in DOMAIN req :
        /\ pkg = "chain" /\ chain = <<"setV", "pass", "setW">>
        /\ req[r].ctx0 = Background /\ req[r].pc = "Done"
        /\ Calls(req[r]) = << <<"T", 0>>, <<"T", 1>>, <<"T", 2>>, <<"H", -1>> >>
        /\ req[r].trace[4].seen = WithValue(Background, "w")

\* C12 as stated: for every initial context the handler of the empty
\* chain.Chain{}.Then(h) calls h exactly once and nothing else.
C12_EmptyChainAlwaysCallsHandler ==
    \A r \in DOMAIN req :
        (pkg = "chain" /\ Len(chain) = 0 /\ req[r].pc = "Done") =>
            Calls(req[r]) = << <<"H", -1>> >>

\* C12, amended: the handler of the empty chain.Chain{}.Then(h) calls h
\* exactly once, and nothing else, for every initial context that is not
\* already canceled; with a canceled context it calls nothing at all.
C12_EmptyChainCallsHandler ==
    \A r \in DOMAIN req :
        LET rq == req[r]
        IN (pkg = "chain" /\ Len(chain) = 0) =>
              /\ IsPrefix(Calls(rq), << <<"H", -1>> >>)
              /\ \A e \in Range(rq.trace) :
                    e.who = ChainThen(h) /\ e.seen = ApplyBase(rq.ctx0)
              /\ rq.pc = "Done" =>
                    HandlerCalls(rq) = IF rq.ctx0.err = "Canceled" THEN 0 ELSE 1

C12_Witness ==
    \E r \in DOMAIN req :
        /\ pkg = "chain" /\ Len(chain) = 0 /\ h = "app"
        /\ req[r].ctx0 = WithValue(Background, "w") /\ req[r].pc = "Done"
        /\ Calls(req[r]) = << <<"H", -1>> >>
        /\ req[r].trace[1].who = "app"

\* Two contexts that carry the same values and the same cancellation state
\* (they may differ in the chain's own reached marker)
SameVisible(c1, c2) == c1.val = c2.val /\ c1.err = c2.err /\ c1.isNil = c2.isNil

\* C17: within one request through middleware.Chain.Then every Outbound call
\* receives one and the same context, the one the inbound pass ended with
\* (the last Inbound call's result, be it the last stage's or the cancelling
\* stage's), so an earlier stage's Outbound sees the values and the
\* cancellation set by later stages.
C17_OutboundSeesFinalContext ==
    \A r \in DOMAIN req :
        LET rq  == req[r]
            ins == SelectSeq(rq.trace, LAMBDA e : e.op = "In")
        IN pkg = "middleware" =>
             \A e \in Range(rq.trace) :
                e.op = "Out" =>
                   /\ e.seen = rq.ctx
                   /\ e.ret = e.seen
                   /\ SameVisible(e.seen, IF ins = <<>> THEN rq.ctx0
                                          ELSE ins[Len(ins)].ret)

C17_Witness ==
    \E r \in DOMAIN req :
        /\ pkg = "middleware" /\ chain = <<"pass", "setV", "guard">>
        /\ req[r].ctx0 = Background /\ req[r].deny /\ req[r].pc = "Done"
        /\ IdxOf(req[r], "Out") = <<2, 1, 0>>
        /\ req[r].trace[Len(req[r].trace)].idx = 0
        /\ req[r].trace[Len(req[r].trace)].seen.val = "v"
        /\ req[r].trace[Len(req[r].trace)].seen.err = "Canceled"

\* C20: Chain.Outbound never indexes a stage outside 0..len(c)-1, whatever
\* context reaches it.
C20_OutboundIndexInRange ==
    \A r \in DOMAIN req :
        pkg = "middleware" =>
            /\ req[r].fault # "index"
            /\ req[r].pc = "RunningOutbound" => req[r].i \in 0..(Len(chain) - 1)

\* The calls of n wrapping middlewares that each run their inner handler:
\* the parts before it of 0..n-1, the endpoint, the parts after it of n-1..0
WrapRoundTrip(n) ==
    [j \in 1..(2 * n + 1) |->
        IF j <= n THEN <<"Pre", j - 1>>
        ELSE IF j = n + 1 THEN <<"H", -1>>
        ELSE <<"Post", 2 * n + 1 - j>>]

\* C13: the handler-wrapping Chain.Then(h) builds c[0](c[1](...c[n-1](h))):
\* the first middleware is the outermost layer, and when every middleware
\* runs its inner handler once, the parts before the handler run in order
\* 0..n-1, then h, then the parts after it in order n-1..0.
C13_FirstIsOutermost ==
    \A r \in DOMAIN req :
        LET rq == req[r]
            n  == Len(chain)
        IN pkg = "wrapper" =>
            /\ WrapperThen(chain) = UpTo(n - 1)
            /\ (\A j \in 1..n : chain[j] # "short") =>
                  /\ IsPrefix(Calls(rq), WrapRoundTrip(n))
                  /\ rq.pc = "Done" => Calls(rq) = WrapRoundTrip(n)

C13_Witness ==
    \E r \in DOMAIN req :
        /\ pkg = "wrapper" /\ chain = <<"tag", "setV", "tag">>
        /\ req[r].pc = "Done"
        /\ Calls(req[r]) = << <<"Pre", 0>>, <<"Pre", 1>>, <<"Pre", 2>>, <<"H", -1>>,
                              <<"Post", 2>>, <<"Post", 1>>, <<"Post", 0>> >>

\* The stage of chain c at a path: c[k], or the stage j of the Chain c[k]
StageAt(c, path) ==
    IF Len(path) = 1 THEN c[path[1] + 1]
    ELSE c[path[1] + 1].inner[path[2] + 1]

InnerCancelled(rq) ==
    \E e \in Range(rq.trace) : e.op = "In" /\ Len(e.idx) = 2 /\ canceled(e.ret)

\* C19: when a stage of an inner Chain cancels, the stages (of the inner and
\* of the outer Chain) whose Outbound is called are those whose Inbound ran,
\* each once, in the reverse of the order in which their Inbound ran, and
\* the unwinding does not fault.
C19_NestedLIFO ==
    \A r \in DOMAIN req :
        LET rq == req[r]
        IN (pkg = "forms" /\ InnerCancelled(rq)) =>
              /\ IsPrefix(IdxOf(rq, "Out"), Reverse(IdxOf(rq, "In")))
              /\ rq.pc = "Done" => IdxOf(rq, "Out") = Reverse(IdxOf(rq, "In"))
              /\ rq.fault # "index"

\* The calls of one kind recorded for a request
EventsOf(rq, op) == SelectSeq(rq.trace, LAMBDA e : e.op = op)

\* ctx.Err() != nil: the context is done, cancelled or past its deadline
ContextDone(ctx) == ctx.err # "nil"

\* C14: in the routers with an InitFunc, the context of a routed request is
\* the base context with the route Params under the param key; init, when
\* there is one, is called once with it; if the context init returns is done
\* the request ends without the endpoint handler being called; otherwise the
\* endpoint handler is called exactly once, with the context init returned,
\* or with the Params context when there is no init.
C14_InitThenEndpoint ==
    \A r \in DOMAIN req :
        LET rq    == req[r]
            inits == EventsOf(rq, "Init")
            hs    == EventsOf(rq, "H")
        IN (pkg \in InitFuncRouters /\ rq.pc # "NotStarted") =>
              /\ ~router.base.isNil
              /\ rq.ctx0 = WithParams(router.base, rq.params)
              /\ Params(rq.ctx0) = rq.params
              /\ Len(inits) = (IF router.init = "nil" THEN 0 ELSE 1)
              /\ Len(hs) <= 1
              /\ Len(inits) = 1 =>
                    /\ inits[1].seen = rq.ctx0
                    /\ ContextDone(inits[1].ret) => (Len(hs) = 0 /\ rq.pc = "Done")
                    /\ (~ContextDone(inits[1].ret) /\ rq.pc \in {"Done", "Faulted"}) =>
                          (Len(hs) = 1 /\ hs[1].seen = inits[1].ret)
                    /\ Len(hs) = 1 => ~ContextDone(hs[1].seen)
              /\ (Len(inits) = 0 /\ rq.pc \in {"Done", "Faulted"}) =>
                    (Len(hs) = 1 /\ hs[1].seen = rq.ctx0)

C14_Witness ==
    \E r \in DOMAIN req :
        /\ pkg = "NewRouter" /\ router.init = "deadline"
        /\ router.base = WithValue(Background, "w")
        /\ req[r].pc = "Done"
        /\ Len(req[r].trace) = 1
        /\ req[r].trace[1].op = "Init"
        /\ Params(req[r].trace[1].seen) = req[r].params
        /\ req[r].trace[1].ret.err = "DeadlineExceeded"

\* C15: in router.Router with a middleware, when the middleware's Inbound
\* returns a cancelled context the endpoint handler is never called and the
\* Outbound calls are those matching the Inbound calls made; otherwise the
\* endpoint handler is called exactly once, after Inbound and before Outbound,
\* with the context Inbound returned.
C15_RouterMiddlewarePipeline ==
    \A r \in DOMAIN req :
        LET rq == req[r]
            hs == EventsOf(rq, "H")
        IN (pkg = MwRouter /\ router.mw.form # "nil" /\ rq.pc # "NotStarted") =>
              /\ Len(hs) <= 1
              /\ canceled(rq.ctx) => Len(hs) = 0
              /\ (~canceled(rq.ctx) /\ rq.pc \in {"HandlerReturned", "Done", "Faulted"}) =>
                    (Len(hs) = 1 /\ hs[1].seen = rq.ctx)
              /\ AllBefore(rq, "In", "H") /\ AllBefore(rq, "H", "Out")
              /\ IsPrefix(IdxOf(rq, "Out"), Reverse(IdxOf(rq, "In")))

\* C16: every ServeHTTP call of an Adapter calls the handler exactly once,
\* with the base context the Adapter was constructed with (the background
\* context when that was nil), whatever earlier requests did with the
\* contexts they derived from it.
C16_SameBaseEveryRequest ==
    \A r \in DOMAIN req :
        LET rq == req[r]
            hs == EventsOf(rq, "H")
        IN (pkg = "adapter" /\ h # "nil") =>
              /\ Len(hs) = (IF rq.pc = "NotStarted" THEN 0 ELSE 1)
              /\ Len(hs) = 1 =>
                    /\ hs[1].who = h
                    /\ hs[1].seen = (IF adapter.arg.isNil THEN Background ELSE adapter.arg)
                    /\ hs[1].seen.val = adapter.arg.val

C16_Witness ==
    /\ pkg = "adapter" /\ h = "app" /\ adapter.arg = WithValue(Background, "w")
    /\ \E q, r \in DOMAIN req :
          /\ req[q].pc = "Done" /\ req[q].ctx = Cancel(WithValue(Background, "w"))
          /\ req[r].pc = "Done" /\ req[r].trace[1].idx >= 1
          /\ req[r].trace[1].seen = WithValue(Background, "w")

\* C21: when the context handed to the Then handler of a non-empty
\* middleware.Chain is already cancelled and stage 0 does not return a
\* context of its own, stage 0's Inbound is still called and is the only
\* Inbound called, the context Inbound returns carries the marker 0, and the
\* Outbound pass calls stage 0's Outbound and no other (exactly that one once
\* the request is done); no later stage is called in either phase.
C21_CancelledAtEntry ==
    \A r \in DOMAIN req :
        LET rq == req[r]
        IN (/\ pkg = "middleware"
            /\ Len(chain) >= 1
            /\ rq.ctx0.err = "Canceled"
            /\ chain[1] # "fresh") =>
              /\ IsPrefix(IdxOf(rq, "In"), <<0>>)
              /\ rq.pc \notin {"NotStarted", "RunningInbound"} => IdxOf(rq, "In") = <<0>>
              /\ rq.pc \in {"Cancelled", "HandlerRunning", "RunningOutbound", "Done"} =>
                    (rq.ctx.err = "Canceled" /\ rq.ctx.reached = 0)
              /\ rq.pc # "InboundComplete"
              /\ IsPrefix(IdxOf(rq, "Out"), <<0>>)
              /\ rq.pc = "Done" => IdxOf(rq, "Out") = <<0>>
              /\ rq.fault # "index"

C21_Witness ==
    \E r \in DOMAIN req :
        /\ pkg = "middleware" /\ Len(chain) = 3 /\ chain[1] = "setV"
        /\ req[r].ctx0 = WithReached(Cancel(Background), 1)
        /\ req[r].pc = "Done"
        /\ Calls(req[r])[1] = <<"In", 0>>
        /\ IdxOf(req[r], "In") = <<0>>
        /\ IdxOf(req[r], "Out") = <<0>>
        /\ req[r].ctx.reached = 0

\* Call j of the request is the last one made so far
IsLast(rq, j) == j = Len(rq.trace)

\* C22: the chains stop exactly on context.Canceled.  In middleware.Chain,
\* after a stage's Inbound returns a context that is not Canceled (live, or
\* past its deadline) the next stage's Inbound is the next call, or after the
\* last stage the handler; after one that is Canceled no further Inbound is
\* called.  In chain.Chain the same holds of the Transformers, the handler is
\* served with a context past its deadline and never with a Canceled one.  In
\* the routers with an InitFunc a context that is done for either reason ends
\* the request without the handler.
C22_OnlyCanceledStops ==
    \A r \in DOMAIN req :
        LET rq == req[r]
        IN \A j \in 1..Len(rq.trace) :
            LET e == rq.trace[j]
                returned == ~(rq.fault = "inbound" /\ IsLast(rq, j))
            IN /\ (pkg = "middleware" /\ e.op = "In" /\ returned) =>
                    IF e.ret.err = "Canceled"
                    THEN IF IsLast(rq, j) THEN rq.pc = "Cancelled"
                         ELSE rq.trace[j + 1].op = "H"
                    ELSE IF e.idx + 1 < Len(chain)
                    THEN IF IsLast(rq, j) THEN rq.pc = "RunningInbound" /\ rq.i = e.idx + 1
                         ELSE rq.trace[j + 1].op = "In" /\ rq.trace[j + 1].idx = e.idx + 1
                    ELSE IF IsLast(rq, j) THEN rq.pc = "InboundComplete"
                         ELSE rq.trace[j + 1].op = "H" /\ rq.trace[j + 1].seen = e.ret
               /\ (pkg = "chain" /\ e.op = "T" /\ returned) =>
                    IF e.ret.err = "Canceled"
                    THEN IsLast(rq, j) /\ rq.pc \in {"Applied", "Done"}
                    ELSE IF e.idx + 1 < Len(chain)
                    THEN IF IsLast(rq, j) THEN rq.pc = "Applying" /\ rq.i = e.idx + 1
                         ELSE rq.trace[j + 1].op = "T" /\ rq.trace[j + 1].idx = e.idx + 1
                    ELSE IF IsLast(rq, j) THEN rq.pc = "Applied"
                         ELSE rq.trace[j + 1].op = "H" /\ rq.trace[j + 1].seen = e.ret
               /\ (pkg \in InitFuncRouters /\ e.op = "Init") =>
                    IF e.ret.err # "nil"
                    THEN IsLast(rq, j) /\ rq.pc = "Done"
                    ELSE IF IsLast(rq, j) THEN rq.pc = "Initialized"
                         ELSE rq.trace[j + 1].op = "H" /\ rq.trace[j + 1].seen = e.ret

C22_Witness ==
    \E r \in DOMAIN req :
        /\ pkg = "middleware" /\ chain = <<"deadline", "setV">> /\ Then(h) = "app"
        /\ req[r].ctx0 = Background
        /\ req[r].pc = "Done"
        /\ Calls(req[r]) = << <<"In", 0>>, <<"In", 1>>, <<"H", -1>>, <<"Out", 1>>, <<"Out", 0>> >>
        /\ req[r].trace[1].ret.err = "DeadlineExceeded"
        /\ req[r].trace[3].seen.err = "DeadlineExceeded"

====
